---- MODULE Spec2Model ----
(***************************************************************************)
(* A model of the OAuth2 authorization-code client of this repository.     *)
(*                                                                         *)
(* The repository holds two versions of class OAuth2Client:                *)
(*   "polling"  src/src/oauth-client.ts : authenticateWithPopup opens the  *)
(*              popup, waitForCallback polls its location, handleCallback  *)
(*              validates the callback and then exchanges the code for a   *)
(*              token (asynchronously);                                    *)
(*   "message"  src/unnamed/part_000    : authenticateWithPopup opens the  *)
(*              popup and waits for a cross-document message, which it     *)
(*              hands to a synchronous handleCallback.                     *)
(* The variable `variant` says which of the two classes the behaviour is   *)
(* about; it never changes.                                                *)
(*                                                                         *)
(* Strings of the program are TLA+ strings.  Null stands for both null and *)
(* undefined (the code only ever tests them for truthiness), Empty for the *)
(* empty string, which JavaScript also treats as falsy.                    *)
(***************************************************************************)
EXTENDS Integers, Sequences, FiniteSets, TLC

VARIABLES
    variant,         \* which OAuth2Client class: "polling" or "message"
    config,          \* this.config, fixed at construction
    sessionStorage,  \* the tab's sessionStorage, the two keys the client uses
    minted,          \* how many UUIDs randomUUID() has produced so far
    inflight,        \* polling: handleCallback calls suspended at an await
    last,            \* the outcome of the last completed public call
    consumed,        \* history: a handleCallback removed a stored state and
                     \*   no getAuthorizationUrl has stored one since
    validations,     \* history: per minted state, its successful validations
    popup,           \* this.popup: 0 (null) or the index of a window
    windows,         \* the popup windows opened so far
    waits            \* the promises of waitForCallback / authenticateWithPopup

vars == <<variant, config, sessionStorage, minted, inflight, last, consumed,
          validations, popup, windows, waits>>

----------------------------------------------------------------------------
(* Bounds of the model *)

\* how many authorization states (UUIDs) one behaviour mints
MaxStates == 2

----------------------------------------------------------------------------
(* Values *)

Null == "<null>"
Empty == ""

\* JavaScript truthiness of a string-or-null value: `if (x)`, `!x`, `x || y`
Truthy(v) == v # Null /\ v # Empty

STATE_KEY == "oauth_state"
TOKEN_KEY == "oauth_token"

\* the n-th value returned by randomUUID(): fresh, never repeated
UUID(n) == "uuid-" \o ToString(n)

Minted(n) == { UUID(i) : i \in 1..n }

\* a state value that this client never generated
Forged == "invalid-state"

Variants == {"polling", "message"}

----------------------------------------------------------------------------
(* Configuration: models/oauth-models.ts, validateConfig *)

\* the origin of the page that runs the client (window.location.origin)
OpenerOrigin == "https://app.test"
\* the origin of the identity provider
ProviderOrigin == "https://idp.test"
\* an origin that is neither
OtherOrigin == "https://cb.test"

Origins == {OpenerOrigin, ProviderOrigin, OtherOrigin}

\* The configurations of the model.  redirectOrigin is
\* new URL(redirectUri).origin; endpointQuery holds the query parameters the
\* configured authEndpoint already carries (none of the five the client
\* appends itself).
Configs ==
    { [clientId |-> "c1", redirectOrigin |-> OpenerOrigin, scope |-> "read write",
       endpointQuery |-> <<>>],
      [clientId |-> "c1", redirectOrigin |-> OtherOrigin, scope |-> Null,
       endpointQuery |-> << <<"tenant", "t1">> >>] }

\* url.searchParams.append(name, value)
SearchParamsAppend(query, name, value) == Append(query, <<name, value>>)

\* url.searchParams.get(name): the first value of that name, or null
SearchParamsGet(query, name) ==
    LET hits == { i \in 1..Len(query) : query[i][1] = name }
    IN  IF hits = {} THEN Null
        ELSE query[CHOOSE i \in hits : \A j \in hits : i <= j][2]

SearchParamsCount(query, name) ==
    Cardinality({ i \in 1..Len(query) : query[i][1] = name })

----------------------------------------------------------------------------
(* getAuthorizationUrl *)

NoUrl == <<>>

\* A mutant: the state is stored only when the slot is empty.
SetStateItemIfAbsent(storage, state) ==
    IF storage[STATE_KEY] = Null THEN [storage EXCEPT ![STATE_KEY] = state]
    ELSE storage

\* sessionStorage.setItem(this.STATE_KEY, state)
SetStateItem(storage, state) == [storage EXCEPT ![STATE_KEY] = state]

\* A mutant: the URL carries a state of its own, not the stored one.
BuildQueryOtherState(cfg, state) ==
    LET q1 == SearchParamsAppend(cfg.endpointQuery, "client_id", cfg.clientId)
        q2 == SearchParamsAppend(q1, "redirect_uri", cfg.redirectOrigin \o "/cb")
        q3 == SearchParamsAppend(q2, "response_type", "code")
    IN  SearchParamsAppend(q3, "state", Forged)

\* the query of the authorization URL, appended parameter by parameter
BuildQuery(cfg, state) ==
    LET q1 == SearchParamsAppend(cfg.endpointQuery, "client_id", cfg.clientId)
        q2 == SearchParamsAppend(q1, "redirect_uri", cfg.redirectOrigin \o "/cb")
        q3 == SearchParamsAppend(q2, "response_type", "code")
        q4 == SearchParamsAppend(q3, "state", state)
    IN  IF Truthy(cfg.scope) THEN SearchParamsAppend(q4, "scope", cfg.scope)
        ELSE q4

\* A mutant: a failed store write is swallowed, url and state are returned.
GetAuthorizationUrlResultUnstored(storage, n, cfg, setItemThrows) ==
    LET state == UUID(n + 1)
    IN  [kind |-> "ok", url |-> BuildQuery(cfg, state), state |-> state,
         storage |-> IF setItemThrows THEN storage
                     ELSE SetStateItem(storage, state),
         stateWrites |-> IF setItemThrows THEN 0 ELSE 1]

\* getAuthorizationUrl() as a function of the store, the number of UUIDs
\* drawn so far and whether setItem throws.  Returns the outcome, the store
\* afterwards and the number of completed store writes.
GetAuthorizationUrlResult(storage, n, cfg, setItemThrows) ==
    LET state == UUID(n + 1)
    IN  IF setItemThrows
        THEN [kind |-> "StorageUnavailable", url |-> NoUrl, state |-> Null,
              storage |-> storage, stateWrites |-> 0]
        ELSE [kind |-> "ok", url |-> BuildQuery(cfg, state), state |-> state,
              storage |-> SetStateItem(storage, state), stateWrites |-> 1]

----------------------------------------------------------------------------
(* handleCallback: the validator *)

\* CallbackParams, models/oauth-models.ts
NoParams == [code |-> Null, state |-> Null, error |-> Null,
             error_description |-> Null]

CodeValues == {Null, Empty, "abc"}
ErrorValues == {Null, Empty, "access_denied"}
DescriptionValues == {Null, "User denied access"}
StateValues(n) == {Null, Forged} \cup Minted(n)

\* The callbacks a caller may pass once n states have been minted: every
\* combination of the values above, a description only along with an error.
Params(n) ==
    { p \in [code : CodeValues, state : StateValues(n), error : ErrorValues,
             error_description : DescriptionValues] :
        Truthy(p.error_description) => Truthy(p.error) }

\* The outcomes of a call, named as the spec names them; the code throws
\* Error objects that differ in their message only:
\*   ProviderError          "Auth error: ..."
\*   MissingParameters      "Missing required callback parameters"
\*   StorageUnavailable     "Failed to retrieve state from storage: ..." /
\*                          "Failed to store state: ..."
\*   ExpiredOrMissingState  "No stored state found - the session might ..."
\*   CsrfMismatch           "State validation failed - possible CSRF attack"
\*   TokenExchangeFailed    whatever fetch() or json() rejected with
ErrorKinds == {"ProviderError", "MissingParameters", "StorageUnavailable",
               "ExpiredOrMissingState", "CsrfMismatch", "TokenExchangeFailed"}

\* A mutant: the stored state is read but left in the store.
TakeStateKeep(storage) ==
    [saved |-> storage[STATE_KEY], storage |-> storage]

\* getItem(STATE_KEY) followed by removeItem(STATE_KEY)
TakeState(storage) ==
    [saved |-> storage[STATE_KEY],
     storage |-> [storage EXCEPT ![STATE_KEY] = Null]]

\* A mutant: the missing-parameter check comes first.
CheckParamsMissingFirst(params) ==
    IF ~Truthy(params.code) \/ ~Truthy(params.state)
    THEN [kind |-> "MissingParameters", value |-> Null]
    ELSE IF Truthy(params.error)
    THEN [kind |-> "ProviderError",
          value |-> IF Truthy(params.error_description)
                    THEN params.error_description ELSE params.error]
    ELSE [kind |-> "ok", value |-> Null]

\* the two checks that look at the parameters only
CheckParams(params) ==
    IF Truthy(params.error)
    THEN [kind |-> "ProviderError",
          value |-> IF Truthy(params.error_description)
                    THEN params.error_description ELSE params.error]
    ELSE IF ~Truthy(params.code) \/ ~Truthy(params.state)
    THEN [kind |-> "MissingParameters", value |-> Null]
    ELSE [kind |-> "ok", value |-> Null]

\* A mutant: any callback is accepted while some state is stored.
CompareStateAnyStored(state, savedState) ==
    IF ~Truthy(savedState) THEN "ExpiredOrMissingState" ELSE "ok"

\* the two checks on the state that was stored
CompareState(state, savedState) ==
    IF ~Truthy(savedState) THEN "ExpiredOrMissingState"
    ELSE IF state # savedState THEN "CsrfMismatch"
    ELSE "ok"

\* A mutant: the stored state is compared first and deleted on success only.
ValidateCompareFirst(params, storage, getItemThrows) ==
    LET pre == CheckParams(params)
        taken == TakeState(storage)
        cmp == CompareState(params.state, taken.saved)
    IN  IF pre.kind # "ok"
        THEN [kind |-> pre.kind, value |-> pre.value, storage |-> storage,
              read |-> FALSE]
        ELSE IF getItemThrows
        THEN [kind |-> "StorageUnavailable", value |-> Null,
              storage |-> storage, read |-> FALSE]
        ELSE IF cmp # "ok"
        THEN [kind |-> cmp, value |-> Null, storage |-> storage,
              read |-> TRUE]
        ELSE [kind |-> "ok", value |-> params.code, storage |-> taken.storage,
              read |-> TRUE]

\* A mutant: the stored state is read and deleted before the parameters
\* are looked at.
ValidateTakeFirst(params, storage, getItemThrows) ==
    LET pre == CheckParams(params)
        taken == TakeState(storage)
        cmp == CompareState(params.state, taken.saved)
    IN  IF getItemThrows
        THEN [kind |-> "StorageUnavailable", value |-> Null,
              storage |-> storage, read |-> FALSE]
        ELSE IF pre.kind # "ok"
        THEN [kind |-> pre.kind, value |-> pre.value,
              storage |-> taken.storage, read |-> TRUE]
        ELSE IF cmp # "ok"
        THEN [kind |-> cmp, value |-> Null, storage |-> taken.storage,
              read |-> TRUE]
        ELSE [kind |-> "ok", value |-> params.code, storage |-> taken.storage,
              read |-> TRUE]

\* The synchronous part of handleCallback, the same in both classes: the
\* checks in their order.  On "ok" the message class returns the code and
\* the polling class goes on to the token exchange.
Validate(params, storage, getItemThrows) ==
    LET pre == CheckParams(params)
        taken == TakeState(storage)
        cmp == CompareState(params.state, taken.saved)
    IN  IF pre.kind # "ok"
        THEN [kind |-> pre.kind, value |-> pre.value, storage |-> storage,
              read |-> FALSE]
        ELSE IF getItemThrows
        THEN [kind |-> "StorageUnavailable", value |-> Null,
              storage |-> storage, read |-> FALSE]
        ELSE IF cmp # "ok"
        THEN [kind |-> cmp, value |-> Null, storage |-> taken.storage,
              read |-> TRUE]
        ELSE [kind |-> "ok", value |-> params.code, storage |-> taken.storage,
              read |-> TRUE]

----------------------------------------------------------------------------
(* handleCallback: the token exchange of the polling class *)

\* What fetch() may settle with: a rejection (network failure), or a
\* response of some status whose body is JSON or is not.
TokenBody == "{\"access_token\":\"t\"}"
ErrorBody == "{\"error\":\"invalid_grant\"}"
HtmlBody == "<html>"
FetchOutcomes ==
    { [name |-> "network-failure", rejected |-> TRUE, status |-> 0,
       body |-> Empty],
      [name |-> "success", rejected |-> FALSE, status |-> 200,
       body |-> TokenBody],
      [name |-> "success-unparseable", rejected |-> FALSE, status |-> 200,
       body |-> HtmlBody],
      [name |-> "http-error", rejected |-> FALSE, status |-> 401,
       body |-> ErrorBody] }

\* response.json(): the parsed value, or a rejection
IsJson(body) == body \in {TokenBody, ErrorBody}

\* setItem stores String(value); the parsed token is an object
ToStorageString(value) == "[object Object]"

\* sessionStorage.setItem(this.TOKEN_KEY, token)
SetTokenItem(storage, token) ==
    [storage EXCEPT ![TOKEN_KEY] = ToStorageString(token)]

\* isAuthenticated()
IsAuthenticated(storage) == Truthy(storage[TOKEN_KEY])

----------------------------------------------------------------------------
(* Popup windows and what arrives from them *)

\* A window as the opener sees it: whether it is closed, the origin of its
\* current location and the callback parameters in that location's query
\* (Null: the parameter is not in the query).  The opener can read the
\* location of a window of its own origin only, and the model keeps no
\* query for the others.
NewWindow == [closed |-> FALSE, origin |-> ProviderOrigin, query |-> NoParams]

\* the callbacks a provider, or somebody else, may send once n states exist
SampleCallbacks(n) ==
    { [NoParams EXCEPT !.code = "abc", !.state = s] : s \in {Forged} \cup Minted(n) }
    \cup { [NoParams EXCEPT !.error = "access_denied",
                            !.error_description = "User denied access"],
           [NoParams EXCEPT !.code = Empty, !.state = Forged] }

\* popup.close(): closing a closed window is a no-op
CloseWindow(ws, w) == [ws EXCEPT ![w].closed = TRUE]

\* `searchParams.get(name) || undefined`
OrUndefined(v) == IF Truthy(v) THEN v ELSE Null

\* the CallbackParams waitForCallback builds from the popup's location
ParseCallback(query) ==
    [code |-> OrUndefined(query.code), state |-> OrUndefined(query.state),
     error |-> OrUndefined(query.error),
     error_description |-> OrUndefined(query.error_description)]

\* A promise handed to the caller, with the timer and listener behind it.
\*   status   "pending", "resolved" or "rejected"
\*   value    resolved: Null (no result), "params" (polling, see params) or
\*            the code; rejected: the error kind
\*   cause    what settled it: "closed", "navigated", "message", "aborted"
\*   checked  the validator has run on the callback and accepted it
\*   settles  how often resolve or reject has been called, capped at 2
\*   window   the popup that was this.popup when the wait began
NewWait(w, withListener) ==
    [interval |-> TRUE, listener |-> withListener, status |-> "pending",
     value |-> Null, params |-> NoParams, cause |-> "none", checked |-> FALSE,
     settles |-> 0, window |-> w]

\* resolve(...) or reject(...): only the first call settles the promise
Settle(wait, status, value, params, cause, checked) ==
    IF wait.status # "pending"
    THEN [wait EXCEPT !.settles = 2]
    ELSE [wait EXCEPT !.status = status, !.value = value, !.params = params,
                      !.cause = cause, !.checked = checked, !.settles = 1]

----------------------------------------------------------------------------
(* The record of a completed call *)

EmptyStorage == [k \in {STATE_KEY, TOKEN_KEY} |-> Null]

\* Of a handleCallback it also says
\*   read         whether the call read the state slot
\*   exchange     how its token exchange went, see FetchOutcomes ("none": the
\*                call issued no request)
\*   tokenWrites  how often the call wrote the token slot
\*   overLogout   whether a logout returned while the call was suspended
NoCall ==
    [op |-> "none", params |-> NoParams, before |-> EmptyStorage,
     after |-> EmptyStorage, consumedBefore |-> FALSE, kind |-> "none",
     value |-> Null, url |-> NoUrl, state |-> Null, stateWrites |-> 0,
     read |-> FALSE, exchange |-> "none", tokenWrites |-> 0,
     overLogout |-> FALSE]

\* a handleCallback that has returned or thrown
CallbackCall(params, before, after, was, kind, value) ==
    [NoCall EXCEPT !.op = "handleCallback", !.params = params,
                   !.before = before, !.after = after,
                   !.consumedBefore = was, !.kind = kind, !.value = value]

\* history: the count of successful validations of a state, capped at 2
Validated(counts, state) ==
    [s \in DOMAIN counts |->
        IF s = state /\ counts[s] < 2 THEN counts[s] + 1 ELSE counts[s]]

----------------------------------------------------------------------------
(* Initial state: a client just constructed, in a tab with an empty store *)

Init ==
    /\ variant \in Variants
    /\ config \in Configs
    /\ sessionStorage = EmptyStorage
    /\ minted = 0
    /\ inflight = <<>>
    /\ last = NoCall
    /\ consumed = FALSE
    /\ validations = [s \in Minted(MaxStates) |-> 0]
    /\ popup = 0
    /\ windows = <<>>
    /\ waits = <<>>

popupVars == <<popup, windows, waits>>

----------------------------------------------------------------------------
(* Calls of the public methods by the application *)

\* getAuthorizationUrl(), either class
GetAuthorizationUrl ==
    /\ minted < MaxStates
    /\ \E setItemThrows \in BOOLEAN :
         LET r == GetAuthorizationUrlResult(sessionStorage, minted, config,
                                            setItemThrows)
         IN  /\ sessionStorage' = r.storage
             /\ minted' = minted + 1
             /\ consumed' = IF r.kind = "ok" THEN FALSE ELSE consumed
             /\ last' = [NoCall EXCEPT !.op = "getAuthorizationUrl",
                            !.before = sessionStorage, !.after = r.storage,
                            !.consumedBefore = consumed, !.kind = r.kind,
                            !.url = r.url, !.state = r.state,
                            !.stateWrites = r.stateWrites]
    /\ UNCHANGED <<variant, config, inflight, validations, popupVars>>

\* handleCallback(params) of the message class: synchronous, returns the code
HandleCallbackMessage ==
    /\ variant = "message"
    /\ \E params \in Params(minted), getItemThrows \in BOOLEAN :
         LET r == Validate(params, sessionStorage, getItemThrows)
         IN  /\ sessionStorage' = r.storage
             /\ consumed' = (consumed \/ (r.read /\ Truthy(sessionStorage[STATE_KEY])))
             /\ validations' = IF r.kind = "ok"
                               THEN Validated(validations, params.state)
                               ELSE validations
             /\ last' = [CallbackCall(params, sessionStorage, r.storage,
                                      consumed, r.kind, r.value)
                            EXCEPT !.read = r.read]
    /\ UNCHANGED <<variant, config, minted, inflight, popupVars>>

\* handleCallback(params) of the polling class, up to its first await: the
\* validator, then fetch() is issued and the call is suspended.  The
\* application awaits one handleCallback before it calls the next; logout
\* and getAuthorizationUrl may run while the call is suspended.
HandleCallbackPolling ==
    /\ variant = "polling"
    /\ inflight = <<>>
    /\ \E params \in Params(minted), getItemThrows \in BOOLEAN :
         LET r == Validate(params, sessionStorage, getItemThrows)
         IN  /\ sessionStorage' = r.storage
             /\ consumed' = (consumed \/ (r.read /\ Truthy(sessionStorage[STATE_KEY])))
             /\ IF r.kind = "ok"
                THEN /\ validations' = Validated(validations, params.state)
                     /\ inflight' = Append(inflight,
                            [params |-> params, before |-> sessionStorage,
                             consumedBefore |-> consumed, pc |-> "fetch",
                             body |-> Empty, exchange |-> "none",
                             overLogout |-> FALSE])
                     /\ UNCHANGED last
                ELSE /\ last' = [CallbackCall(params, sessionStorage,
                                     r.storage, consumed, r.kind, r.value)
                                    EXCEPT !.read = r.read]
                     /\ UNCHANGED <<validations, inflight>>
    /\ UNCHANGED <<variant, config, minted, popupVars>>

Remove(seq, i) == SubSeq(seq, 1, i - 1) \o SubSeq(seq, i + 1, Len(seq))

\* a suspended handleCallback returns or throws
ExchangeEnds(call, storage, kind, value, exchange, tokenWrites) ==
    [CallbackCall(call.params, call.before, storage, call.consumedBefore,
                  kind, value)
        EXCEPT !.read = TRUE, !.exchange = exchange,
               !.tokenWrites = tokenWrites, !.overLogout = call.overLogout]

\* `await fetch(tokenEndpoint, ...)` settles: fetch rejects on a network
\* failure only; a response of any status fulfils it
FetchSettles ==
    /\ \E i \in 1..Len(inflight), out \in FetchOutcomes :
         LET call == inflight[i]
         IN  /\ call.pc = "fetch"
             /\ IF out.rejected
                THEN /\ inflight' = Remove(inflight, i)
                     /\ last' = ExchangeEnds(call, sessionStorage,
                                    "TokenExchangeFailed", Null, out.name, 0)
                ELSE /\ inflight' = [inflight EXCEPT ![i].pc = "json",
                                                     ![i].body = out.body,
                                                     ![i].exchange = out.name]
                     /\ UNCHANGED last
    /\ UNCHANGED <<variant, config, sessionStorage, minted, consumed,
                   validations, popupVars>>

\* `await loginToken.json()` settles; the token is stored and returned
JsonSettles ==
    /\ \E i \in 1..Len(inflight) :
         LET call == inflight[i]
         IN  /\ call.pc = "json"
             /\ inflight' = Remove(inflight, i)
             /\ IF IsJson(call.body)
                THEN /\ sessionStorage' = SetTokenItem(sessionStorage, call.body)
                     /\ last' = ExchangeEnds(call,
                                    SetTokenItem(sessionStorage, call.body),
                                    "ok", call.body, call.exchange, 1)
                ELSE /\ UNCHANGED sessionStorage
                     /\ last' = ExchangeEnds(call, sessionStorage,
                                    "TokenExchangeFailed", Null,
                                    call.exchange, 0)
    /\ UNCHANGED <<variant, config, minted, consumed, validations, popupVars>>

\* A mutant: logout forgets the pending state.
RemoveTokenItemOnly(storage) == [storage EXCEPT ![TOKEN_KEY] = Null]

\* removeItem(TOKEN_KEY) followed by removeItem(STATE_KEY)
RemoveItems(storage) ==
    [storage EXCEPT ![TOKEN_KEY] = Null, ![STATE_KEY] = Null]

\* logout(), polling class.  removeItemThrows: the store refuses, and
\* logout throws before it has removed anything.
Logout ==
    /\ variant = "polling"
    /\ \E removeItemThrows \in BOOLEAN :
         LET after == IF removeItemThrows THEN sessionStorage
                      ELSE RemoveItems(sessionStorage)
         IN  /\ sessionStorage' = after
             /\ last' = [NoCall EXCEPT !.op = "logout",
                            !.before = sessionStorage, !.after = after,
                            !.consumedBefore = consumed,
                            !.kind = IF removeItemThrows THEN "LogoutFailed"
                                     ELSE "ok"]
             /\ inflight' = [i \in 1..Len(inflight) |->
                                [inflight[i] EXCEPT !.overLogout =
                                    (@ \/ ~removeItemThrows)]]
    /\ UNCHANGED <<variant, config, minted, consumed, validations, popupVars>>

----------------------------------------------------------------------------
(* The popup flow.  The handlers are functions of the client's state, a    *)
(* record c of the fields they read and write.                             *)

Client ==
    [storage |-> sessionStorage, popup |-> popup, windows |-> windows,
     waits |-> waits, consumed |-> consumed, validations |-> validations,
     last |-> last]

Becomes(c) ==
    /\ sessionStorage' = c.storage
    /\ popup' = c.popup
    /\ windows' = c.windows
    /\ waits' = c.waits
    /\ consumed' = c.consumed
    /\ validations' = c.validations
    /\ last' = c.last

\* What reading popup.location.origin gives the opener: the origin of a
\* same-origin window, a DOMException for any other.
LocationOrigin(win) ==
    IF win.origin = OpenerOrigin THEN win.origin ELSE "DOMException"

\* A mutant: a DOMException aborts the wait like any other exception.
PollTickAbortsOnAnyError(c, i, probeThrows) ==
    LET w == c.popup
        stopped == [c.waits[i] EXCEPT !.interval = FALSE]
    IN  IF w = 0 THEN c
        ELSE IF c.windows[w].closed
        THEN [c EXCEPT !.popup = 0,
                       !.waits[i] = Settle(stopped, "resolved", Null, NoParams,
                                           "closed", FALSE)]
        ELSE IF probeThrows \/ LocationOrigin(c.windows[w]) = "DOMException"
        THEN [c EXCEPT !.popup = 0,
                       !.windows = CloseWindow(c.windows, w),
                       !.waits[i] = Settle(stopped, "resolved", Null, NoParams,
                                           "aborted", FALSE)]
        ELSE [c EXCEPT !.popup = 0,
                       !.windows = CloseWindow(c.windows, w),
                       !.waits[i] = Settle(stopped, "resolved", "params",
                                           ParseCallback(c.windows[w].query),
                                           "navigated", FALSE)]

\* The interval callback of waitForCallback (polling class), for wait i.
\* probeThrows: probing the popup throws something that is no DOMException.
PollTick(c, i, probeThrows) ==
    LET w == c.popup
        stopped == [c.waits[i] EXCEPT !.interval = FALSE]
    IN  IF w = 0 THEN c
        ELSE IF c.windows[w].closed
        THEN [c EXCEPT !.popup = 0,
                       !.waits[i] = Settle(stopped, "resolved", Null, NoParams,
                                           "closed", FALSE)]
        ELSE IF probeThrows
        THEN [c EXCEPT !.popup = 0,
                       !.windows = CloseWindow(c.windows, w),
                       !.waits[i] = Settle(stopped, "resolved", Null, NoParams,
                                           "aborted", FALSE)]
        ELSE IF LocationOrigin(c.windows[w]) # OpenerOrigin
        THEN c
        ELSE [c EXCEPT !.popup = 0,
                       !.windows = CloseWindow(c.windows, w),
                       !.waits[i] = Settle(stopped, "resolved", "params",
                                           ParseCallback(c.windows[w].query),
                                           "navigated", FALSE)]

\* The interval callback of authenticateWithPopup (message class), wait i.
MessageTick(c, i) ==
    LET w == c.popup
    IN  IF w # 0 /\ c.windows[w].closed
        THEN [c EXCEPT !.waits[i] =
                  Settle([c.waits[i] EXCEPT !.interval = FALSE], "rejected",
                         "Cancelled", NoParams, "closed", FALSE)]
        ELSE c

\* A mutant: any message tagged as a callback is accepted, whatever its origin.
AcceptsMessageAnyOrigin(cfg, ev) == ev.tagged

\* the two tests of messageHandler on an incoming message
AcceptsMessage(cfg, ev) == cfg.redirectOrigin = ev.origin /\ ev.tagged

\* messageHandler of wait i (message class) on the message ev
MessageHandler(c, i, cfg, ev, getItemThrows) ==
    IF ~AcceptsMessage(cfg, ev) THEN c
    ELSE
    LET w == c.popup
        r == Validate(ev.params, c.storage, getItemThrows)
        off == [c.waits[i] EXCEPT !.listener = FALSE, !.interval = FALSE]
    IN  [c EXCEPT
           !.popup = 0,
           !.windows = IF w # 0 THEN CloseWindow(c.windows, w) ELSE c.windows,
           !.storage = r.storage,
           !.consumed = (c.consumed \/ (r.read /\ Truthy(c.storage[STATE_KEY]))),
           !.validations = IF r.kind = "ok"
                           THEN Validated(c.validations, ev.params.state)
                           ELSE c.validations,
           !.waits[i] = IF r.kind = "ok"
                        THEN Settle(off, "resolved", r.value, NoParams,
                                    "message", TRUE)
                        ELSE Settle(off, "rejected", r.kind, NoParams,
                                    "message", FALSE)]

\* window.dispatchEvent: the listeners registered run one after the other,
\* in the order of their registration, from wait i on
RECURSIVE Dispatch(_, _, _, _, _)
Dispatch(c, i, cfg, ev, getItemThrows) ==
    IF i > Len(c.waits) THEN c
    ELSE Dispatch(IF c.waits[i].listener
                  THEN MessageHandler(c, i, cfg, ev, getItemThrows)
                  ELSE c,
                  i + 1, cfg, ev, getItemThrows)

\* authenticateWithPopup() up to the popup being open, either class: the
\* state is minted and stored, then window.open is called.
\* blocked: window.open returns null.
OpenPopup(c, n, cfg, setItemThrows, blocked) ==
    LET r == GetAuthorizationUrlResult(c.storage, n, cfg, setItemThrows)
        w == Len(c.windows) + 1
        call == [NoCall EXCEPT !.op = "authenticateWithPopup"]
    IN  IF r.kind # "ok"
        THEN [c EXCEPT
                !.popup = 0,
                !.windows = IF c.popup # 0 THEN CloseWindow(c.windows, c.popup)
                            ELSE c.windows,
                !.last = [call EXCEPT !.kind = r.kind]]
        ELSE IF blocked
        THEN [c EXCEPT !.storage = r.storage, !.consumed = FALSE, !.popup = 0,
                       !.last = [call EXCEPT !.kind = "PopupBlocked"]]
        ELSE [c EXCEPT !.storage = r.storage, !.consumed = FALSE, !.popup = w,
                       !.windows = Append(c.windows, NewWindow),
                       !.last = [call EXCEPT !.kind = "ok"]]

\* authenticateWithPopup(), polling class
AuthenticateWithPopupPolling ==
    /\ variant = "polling"
    /\ minted < MaxStates
    /\ \E setItemThrows \in BOOLEAN, blocked \in BOOLEAN :
         Becomes(OpenPopup(Client, minted, config, setItemThrows, blocked))
    /\ minted' = minted + 1
    /\ UNCHANGED <<variant, config, inflight>>

\* authenticateWithPopup() of the message class: once the popup is open,
\* the interval and the message listener are registered
OpenPopupAndListen(c, n, cfg, setItemThrows, blocked) ==
    LET o == OpenPopup(c, n, cfg, setItemThrows, blocked)
    IN  IF o.last.kind = "ok"
        THEN [o EXCEPT !.waits = Append(o.waits, NewWait(o.popup, TRUE))]
        ELSE o

\* authenticateWithPopup(), message class
AuthenticateWithPopupMessage ==
    /\ variant = "message"
    /\ minted < MaxStates
    /\ \E setItemThrows \in BOOLEAN, blocked \in BOOLEAN :
         Becomes(OpenPopupAndListen(Client, minted, config, setItemThrows,
                                    blocked))
    /\ minted' = minted + 1
    /\ UNCHANGED <<variant, config, inflight>>

\* waitForCallback(), polling class: the interval is registered.  The
\* application waits once for each popup it has opened.
WaitForCallback ==
    /\ variant = "polling"
    /\ Len(waits) < Len(windows)
    /\ waits' = Append(waits, NewWait(popup, FALSE))
    /\ UNCHANGED <<variant, config, sessionStorage, minted, inflight, last,
                   consumed, validations, popup, windows>>

\* the 500 ms timer of a wait fires, polling class
TickPolling ==
    /\ variant = "polling"
    /\ \E i \in 1..Len(waits), probeThrows \in BOOLEAN :
         /\ waits[i].interval
         /\ Becomes(PollTick(Client, i, probeThrows))
    /\ UNCHANGED <<variant, config, minted, inflight>>

\* the 500 ms timer of a wait fires, message class
TickMessage ==
    /\ variant = "message"
    /\ \E i \in 1..Len(waits) :
         /\ waits[i].interval
         /\ Becomes(MessageTick(Client, i))
    /\ UNCHANGED <<variant, config, minted, inflight>>

\* A cross-document message arrives at the opener, message class: from any
\* origin, tagged as an OAuth callback and carrying callback parameters, or
\* some other message.  (The store works here; its failures are explored
\* under Spec.)
ReceiveMessage ==
    /\ variant = "message"
    /\ \E origin \in Origins, tagged \in BOOLEAN :
        \E params \in IF tagged THEN SampleCallbacks(minted) ELSE {NoParams} :
         Becomes(Dispatch(Client, 1, config,
                          [origin |-> origin, tagged |-> tagged,
                           params |-> params], FALSE))
    /\ UNCHANGED <<variant, config, minted, inflight>>

\* The user closes the popup.  Only the window this.popup refers to is
\* followed: once the client has dropped or replaced its handle, no code can
\* observe that window again.
UserClosesPopup ==
    /\ popup # 0
    /\ ~windows[popup].closed
    /\ windows' = CloseWindow(windows, popup)
    /\ UNCHANGED <<variant, config, sessionStorage, minted, inflight, last,
                   consumed, validations, popup, waits>>

\* The popup, which is at the provider, navigates on: to a page of some
\* origin with callback parameters in its query.  (What the opener can
\* observe of a window is its current location; where it was before makes
\* no difference.)
PopupNavigates ==
    /\ popup # 0
    /\ ~windows[popup].closed
    /\ windows[popup].origin = ProviderOrigin
    /\ \E origin \in Origins \ {ProviderOrigin} :
        \E query \in IF origin = OpenerOrigin THEN SampleCallbacks(minted)
                      ELSE {NoParams} :
         windows' = [windows EXCEPT ![popup].origin = origin,
                                    ![popup].query = query]
    /\ UNCHANGED <<variant, config, sessionStorage, minted, inflight, last,
                   consumed, validations, popup, waits>>

Next ==
    \/ GetAuthorizationUrl
    \/ HandleCallbackMessage
    \/ HandleCallbackPolling
    \/ FetchSettles
    \/ JsonSettles
    \/ Logout

Spec == Init /\ [][Next]_vars

\* The popup flow of the polling class: the calls, the timers and what the
\* user and the popup do.
InitPolling == Init /\ variant = "polling"

NextPolling ==
    \/ AuthenticateWithPopupPolling
    \/ WaitForCallback
    \/ TickPolling
    \/ UserClosesPopup
    \/ PopupNavigates

SpecPolling == InitPolling /\ [][NextPolling]_vars

\* The popup flow of the message class: the calls, the timers, the messages
\* and what the user does.  This class never reads the popup's location: the
\* page at the redirect URI reports by message, so that the popup's
\* navigation shows as the arrival of a message only.
InitMessage == Init /\ variant = "message"

NextMessage ==
    \/ AuthenticateWithPopupMessage
    \/ TickMessage
    \/ ReceiveMessage
    \/ UserClosesPopup

SpecMessage == InitMessage /\ [][NextMessage]_vars

\* The popup flow of either class, each with the steps of its own flow.
NextPopup ==
    \/ variant = "polling" /\ NextPolling
    \/ variant = "message" /\ NextMessage

SpecPopup == Init /\ [][NextPopup]_vars

----------------------------------------------------------------------------
(* Properties of the validator and of getAuthorizationUrl, under Spec.     *)
(* They speak of `last`, the last call that returned or threw: its         *)
(* parameters, the store before and after it and its outcome.              *)

IsCallback == last.op = "handleCallback"

\* the callback carries a code and a state and no error
CodeAndStateOnly(p) == Truthy(p.code) /\ Truthy(p.state) /\ ~Truthy(p.error)

\* the store answered the call (a store that throws holds nothing that the
\* call can read)
StoreAnswered == last.kind # "StorageUnavailable"

\* C1: a callback {code, state: S'} without error, made while the state slot
\* holds a different state S, fails with the CSRF-mismatch error; it returns
\* no code or token and leaves the token slot as it was.
C1_MismatchFails ==
    (/\ IsCallback
     /\ CodeAndStateOnly(last.params)
     /\ StoreAnswered
     /\ Truthy(last.before[STATE_KEY])
     /\ last.params.state # last.before[STATE_KEY])
    => (/\ last.kind = "CsrfMismatch"
        /\ last.value = Null
        /\ last.after[TOKEN_KEY] = last.before[TOKEN_KEY])

\* C1's case: a callback carrying a state other than the stored one was made
C1_Witness ==
    /\ IsCallback
    /\ CodeAndStateOnly(last.params)
    /\ Truthy(last.before[STATE_KEY])
    /\ last.params.state # last.before[STATE_KEY]
    /\ last.kind = "CsrfMismatch"

\* C2: no replay.  Once a handleCallback has consumed the stored state, a
\* later handleCallback that carries a code and a state, with no
\* getAuthorizationUrl in between, fails with the expired-or-missing-state
\* error; and no minted state is validated successfully more than once.
C2_NoReplay ==
    /\ (/\ IsCallback
        /\ last.consumedBefore
        /\ CodeAndStateOnly(last.params)
        /\ StoreAnswered)
       => last.kind = "ExpiredOrMissingState"
    /\ \A s \in DOMAIN validations : validations[s] <= 1

\* C2's case: the state that was validated once has been presented again
C2_Witness ==
    /\ IsCallback
    /\ last.consumedBefore
    /\ CodeAndStateOnly(last.params)
    /\ last.params.state \in Minted(minted)
    /\ validations[last.params.state] = 1
    /\ last.kind = "ExpiredOrMissingState"

\* C6: a getAuthorizationUrl made while an earlier state is still stored
\* replaces it, so that the slot holds the new state only; a later callback
\* that carries the earlier attempt's state fails with the CSRF-mismatch
\* error and returns nothing.
C6_SecondAttemptSupersedes ==
    /\ (/\ last.op = "getAuthorizationUrl"
        /\ last.kind = "ok"
        /\ Truthy(last.before[STATE_KEY]))
       => (/\ last.after[STATE_KEY] = last.state
           /\ last.state # last.before[STATE_KEY])
    /\ \A i \in 1..minted, j \in 1..minted :
         (/\ IsCallback
          /\ CodeAndStateOnly(last.params)
          /\ StoreAnswered
          /\ i < j
          /\ last.params.state = UUID(i)
          /\ last.before[STATE_KEY] = UUID(j))
         => (last.kind = "CsrfMismatch" /\ last.value = Null)

\* C6's case: the first attempt's state arrived after the second attempt's
\* state was stored
C6_Witness ==
    /\ IsCallback
    /\ CodeAndStateOnly(last.params)
    /\ last.params.state = UUID(1)
    /\ last.before[STATE_KEY] = UUID(2)
    /\ validations[UUID(1)] = 0
    /\ last.kind = "CsrfMismatch"

\* the keys of the store whose value a call changed
Written(call) ==
    { k \in DOMAIN call.before : call.after[k] # call.before[k] }

\* C7: when getAuthorizationUrl returns {url, state}, the state slot holds
\* the returned state, which replaced what was there by one store write
\* that touched no other key, and the URL's state parameter is that state.
C7_ReturnedStateIsStored ==
    (last.op = "getAuthorizationUrl" /\ last.kind = "ok")
    => (/\ Truthy(last.state)
        /\ last.after[STATE_KEY] = last.state
        /\ last.stateWrites = 1
        /\ Written(last) = {STATE_KEY}
        /\ SearchParamsGet(last.url, "state") = last.state
        /\ SearchParamsCount(last.url, "state") = 1)

\* C7's case: getAuthorizationUrl returned while an earlier state was stored
C7_Witness ==
    /\ last.op = "getAuthorizationUrl"
    /\ last.kind = "ok"
    /\ Truthy(last.before[STATE_KEY])
    /\ sessionStorage[STATE_KEY] = last.state

\* C8: a callback whose error field is present (a non-empty string: the
\* code tests `if (error)`) fails with the provider error, which carries
\* error_description, or error when no description is given, whatever code
\* and state are and whatever the store holds; the store is not touched.
C8_ProviderErrorFirst ==
    (IsCallback /\ Truthy(last.params.error))
    => (/\ last.kind = "ProviderError"
        /\ last.value = IF Truthy(last.params.error_description)
                        THEN last.params.error_description
                        ELSE last.params.error
        /\ last.after = last.before)

\* C8's case: an error callback that also lacks the code, made while a state
\* is stored
C8_Witness ==
    /\ IsCallback
    /\ Truthy(last.params.error)
    /\ ~Truthy(last.params.code)
    /\ ~Truthy(last.params.error_description)
    /\ Truthy(last.before[STATE_KEY])
    /\ last.kind = "ProviderError"

\* C9: a callback {code: c, state: S} without error, made while the state
\* slot holds S, returns exactly c, and the state slot is empty afterwards.
C9_ReturnsCode ==
    (/\ IsCallback
     /\ CodeAndStateOnly(last.params)
     /\ StoreAnswered
     /\ last.params.state = last.before[STATE_KEY])
    => (/\ last.kind = "ok"
        /\ last.value = last.params.code
        /\ last.after[STATE_KEY] = Null)

\* the token exchange of the call did not end in success: the request
\* failed, the response has a non-success status, or its body is no JSON
ExchangeFailed(call) ==
    call.exchange \in {"network-failure", "http-error", "success-unparseable"}

\* C11: a handleCallback whose token exchange ends in a network failure, in
\* a response of non-success status or in a body that cannot be parsed
\* fails with the token-exchange error and does not write the token slot.
C11_ExchangeFailureFails ==
    (IsCallback /\ ExchangeFailed(last))
    => (/\ last.kind = "TokenExchangeFailed"
        /\ last.value = Null
        /\ last.tokenWrites = 0)

\* C14: when logout has returned normally, the state slot and the token
\* slot are both empty, and isAuthenticated() answers false.
C14_LogoutClears ==
    (last.op = "logout" /\ last.kind = "ok")
    => (/\ last.after[STATE_KEY] = Null
        /\ last.after[TOKEN_KEY] = Null
        /\ ~IsAuthenticated(last.after))

\* C14's case: logout returned in a tab that held a token and a pending state
C14_Witness ==
    /\ last.op = "logout"
    /\ last.kind = "ok"
    /\ IsAuthenticated(last.before)
    /\ Truthy(last.before[STATE_KEY])
    /\ sessionStorage = last.after

\* the callback that carries a code and the state s
Matching(s) == [NoParams EXCEPT !.code = "abc", !.state = s]

\* C17: a handleCallback that fails with the CSRF-mismatch error has read
\* and deleted the stored state, so that the slot is empty afterwards and a
\* handleCallback carrying the state that was stored would now fail with
\* the expired-or-missing-state error; and a callback that carries a state
\* which was consumed without ever having been validated does fail so.
C17_MismatchBurnsState ==
    /\ (IsCallback /\ last.kind = "CsrfMismatch")
       => (/\ last.read
           /\ last.after[STATE_KEY] = Null
           /\ sessionStorage[STATE_KEY] = Null
           /\ Validate(Matching(last.before[STATE_KEY]), sessionStorage,
                       FALSE).kind = "ExpiredOrMissingState")
    /\ (/\ IsCallback
        /\ CodeAndStateOnly(last.params)
        /\ StoreAnswered
        /\ last.consumedBefore
        /\ last.params.state \in Minted(minted)
        /\ validations[last.params.state] = 0)
       => last.kind = "ExpiredOrMissingState"

\* C17's case: the only state minted was consumed by a callback that did not
\* validate it (a mismatch), and then the callback carrying that state came
C17_Witness ==
    /\ IsCallback
    /\ minted = 1
    /\ last.consumedBefore
    /\ last.params.code = "abc"
    /\ last.params.state = UUID(1)
    /\ validations[UUID(1)] = 0
    /\ last.kind = "ExpiredOrMissingState"

\* C18: a handleCallback that fails with the provider error or with the
\* missing-parameters error has not read the state slot and has written
\* neither slot: the store is as it was, and, as long as no other call has
\* begun, a callback carrying the stored state would still validate.
C18_EarlyFailuresLeaveState ==
    (IsCallback /\ last.kind \in {"ProviderError", "MissingParameters"})
    => (/\ ~last.read
        /\ last.after = last.before
        /\ last.tokenWrites = 0
        /\ (inflight = <<>> /\ Truthy(last.before[STATE_KEY]))
           => (/\ sessionStorage = last.before
               /\ Validate(Matching(last.before[STATE_KEY]), sessionStorage,
                           FALSE).kind = "ok"))

\* C18's case: a callback that carries the stored state but no code failed
\* for its missing parameter, and the callback made next, which carries the
\* same state and a code, passed the validator and is exchanging its code
C18_Witness ==
    /\ IsCallback
    /\ last.kind = "MissingParameters"
    /\ Truthy(last.before[STATE_KEY])
    /\ last.params.state = last.before[STATE_KEY]
    /\ Len(inflight) = 1
    /\ inflight[1].before = last.after
    /\ inflight[1].params.state = last.params.state

\* C20: a handleCallback that was suspended in its token exchange when a
\* logout returned does not write the token slot when it resumes: the tab
\* stays logged out when that call ends.
C20_NoTokenAfterLogout ==
    (IsCallback /\ last.overLogout)
    => (last.tokenWrites = 0 /\ ~IsAuthenticated(last.after))

----------------------------------------------------------------------------
(* Properties of the popup flow, under SpecPolling and SpecMessage *)

\* the wait handed its caller a success result that holds a code
HandsOverCode(wait) ==
    /\ wait.status = "resolved"
    /\ \/ wait.value = "params" /\ Truthy(wait.params.code)
       \/ wait.value \notin {Null, "params"}

\* C3: whenever the popup flow hands the caller a success result that holds
\* an authorization code, the validator has run on those callback
\* parameters and accepted them.
C3_CodeOnlyAfterValidation ==
    \A i \in 1..Len(waits) : HandsOverCode(waits[i]) => waits[i].checked

\* the popup of wait i was closed before it reached the redirect URI's origin
ClosedBeforeHome(i) ==
    /\ waits[i].window # 0
    /\ windows[waits[i].window].closed
    /\ windows[waits[i].window].origin # config.redirectOrigin

\* C4, its safety half: a wait that ends because the popup was closed
\* before it reached the redirect URI's origin is resolved with "no
\* result"; it is never rejected.
C4_CancelResolves ==
    \A i \in 1..Len(waits) :
        (waits[i].cause = "closed" /\ ClosedBeforeHome(i))
        => (waits[i].status = "resolved" /\ waits[i].value = Null)

\* C5: once a wait has reached a terminal state, neither its polling
\* interval nor its message listener is still registered.
C5_NothingLeftRegistered ==
    \A i \in 1..Len(waits) :
        waits[i].status # "pending"
        => (~waits[i].interval /\ ~waits[i].listener)

\* what a timer tick of attempt i may make of the client
TickResults(i) ==
    IF ~waits[i].interval THEN {}
    ELSE IF variant = "polling"
    THEN { PollTick(Client, i, probeThrows) : probeThrows \in BOOLEAN }
    ELSE { MessageTick(Client, i) }

\* C15: in the polling class, while the popup is open, a tick whose probe of
\* the popup raises a DOMException (the popup is at another origin) changes
\* nothing: the wait stays pending, its interval registered and the popup
\* open.  A tick whose probe raises anything else clears the interval,
\* closes the popup, drops the handle and resolves the wait with null.
C15_ProbeErrors ==
    /\ \A i \in 1..Len(waits) :
         (/\ variant = "polling"
          /\ waits[i].interval
          /\ popup # 0
          /\ ~windows[popup].closed)
         => (/\ waits[i].status = "pending"
             /\ LocationOrigin(windows[popup]) = "DOMException"
                => PollTick(Client, i, FALSE) = Client
             /\ LET c == PollTick(Client, i, TRUE)
                IN  /\ ~c.waits[i].interval
                    /\ c.windows[popup].closed
                    /\ c.popup = 0
                    /\ c.waits[i].status = "resolved"
                    /\ c.waits[i].value = Null
                    /\ c.waits[i].cause = "aborted")
    /\ \A i \in 1..Len(waits) :
         waits[i].cause = "aborted"
         => (/\ waits[i].status = "resolved"
             /\ waits[i].value = Null
             /\ ~waits[i].interval)

\* C15's case: one wait was aborted by an unexpected exception, and another
\* is pending on an open popup that is at a foreign origin
C15_Witness ==
    /\ variant = "polling"
    /\ \E i \in 1..Len(waits) : waits[i].cause = "aborted"
    /\ \E j \in 1..Len(waits) :
         /\ waits[j].status = "pending"
         /\ waits[j].interval
         /\ popup # 0
         /\ ~windows[popup].closed
         /\ LocationOrigin(windows[popup]) = "DOMException"

\* C16: in the polling class, a tick extracts callback parameters only from
\* a popup whose location has the redirect URI's origin.
C16_ExtractsOnlyAtRedirectOrigin ==
    \A i \in 1..Len(waits) :
        (/\ variant = "polling"
         /\ waits[i].interval
         /\ popup # 0
         /\ ~windows[popup].closed
         /\ windows[popup].origin # config.redirectOrigin)
        => PollTick(Client, i, FALSE).waits[i].cause # "navigated"

\* the messages that may arrive once n states have been minted
Events(n) ==
    [origin : Origins, tagged : BOOLEAN, params : SampleCallbacks(n)]

\* C10: in every reachable state of the message class, a message whose
\* origin is not the redirect URI's origin, or whose payload is not tagged
\* as an OAuth callback, changes nothing when it is delivered to the
\* registered listeners: the store, the popup, the listeners, the intervals
\* and the pending attempts stay as they are and the validator does not run.
C10_ForeignMessageIgnored ==
    \A ev \in Events(minted) :
        (ev.origin # config.redirectOrigin \/ ~ev.tagged)
        => Dispatch(Client, 1, config, ev, FALSE) = Client

\* C10's case: an attempt is pending with its listener and interval
\* registered, its popup open and its state stored; a tagged callback
\* carrying that very state arrives from the opener's own origin, which is
\* not the redirect URI's origin.
C10_Witness ==
    /\ variant = "message"
    /\ config.redirectOrigin # OpenerOrigin
    /\ \E i \in 1..Len(waits) :
         /\ waits[i].status = "pending"
         /\ waits[i].listener
         /\ waits[i].interval
         /\ popup = waits[i].window
         /\ popup # 0
         /\ ~windows[popup].closed
    /\ Truthy(sessionStorage[STATE_KEY])
    /\ \E ev \in Events(minted) :
         /\ ev.origin = OpenerOrigin
         /\ ev.tagged
         /\ ev.params.state = sessionStorage[STATE_KEY]
         /\ Dispatch(Client, 1, config, ev, FALSE) = Client

\* what a message may make of the client when the listener of attempt i,
\* if it is still registered, handles it
MessageResults(i) ==
    IF ~waits[i].listener THEN {}
    ELSE { MessageHandler(Client, i, config, ev, FALSE) : ev \in Events(minted) }

\* C12: an attempt is settled at most once, and once it has reached a
\* terminal state no timer tick and no message of that attempt does
\* anything: the validator does not run, the state slot, the popup and the
\* attempts stay as they are.
C12_TerminalIsAbsorbing ==
    \A i \in 1..Len(waits) :
        /\ waits[i].settles <= 1
        /\ waits[i].status # "pending"
           => \A c \in TickResults(i) \cup MessageResults(i) : c = Client

\* the outcome of authenticateWithPopup() in the current state when the
\* store write of the state fails
FailedStart(blocked) ==
    IF variant = "message"
    THEN OpenPopupAndListen(Client, minted, config, TRUE, blocked)
    ELSE OpenPopup(Client, minted, config, TRUE, blocked)

\* C13: in every reachable state of the popup flow, a getAuthorizationUrl
\* whose store write fails ends with the store error, without url and
\* state and with the store as it was; an authenticateWithPopup made then
\* fails with that error, opens no window, registers no timer and no
\* listener and leaves the client without a popup.
C13_StoreFailureAborts ==
    /\ LET r == GetAuthorizationUrlResult(sessionStorage, minted, config, TRUE)
       IN  /\ r.kind = "StorageUnavailable"
           /\ r.url = NoUrl
           /\ r.state = Null
           /\ r.storage = sessionStorage
    /\ \A blocked \in BOOLEAN :
         LET c == FailedStart(blocked)
         IN  /\ c.last.kind = "StorageUnavailable"
             /\ Len(c.windows) = Len(windows)
             /\ c.waits = waits
             /\ c.popup = 0
             /\ c.storage = sessionStorage
    /\ (last.op = "authenticateWithPopup" /\ last.kind = "StorageUnavailable")
       => popup = 0

\* C13's case: an authenticateWithPopup has failed for the store, made
\* while an earlier attempt was pending with its popup open
C13_Witness ==
    /\ last.op = "authenticateWithPopup"
    /\ last.kind = "StorageUnavailable"
    /\ Len(windows) = 1
    /\ Len(waits) = 1
    /\ waits[1].status = "pending"
    /\ popup = 0

\* C19: in the message class, when an earlier attempt has ended because
\* its popup was closed and the latest attempt is pending with its popup
\* open and its own state stored, one accepted callback message that
\* carries this state resolves the latest attempt with the code.
C19_RetryUnaffected ==
    \A i \in 1..Len(waits) :
        LET j == Len(waits)
            ev == [origin |-> config.redirectOrigin, tagged |-> TRUE,
                   params |-> Matching(sessionStorage[STATE_KEY])]
            c == Dispatch(Client, 1, config, ev, FALSE)
        IN  (/\ variant = "message"
             /\ i < j
             /\ waits[i].cause = "closed"
             /\ windows[waits[i].window].closed
             /\ waits[j].status = "pending"
             /\ waits[j].listener
             /\ popup = waits[j].window
             /\ ~windows[popup].closed
             /\ sessionStorage[STATE_KEY] = UUID(minted))
            => (/\ c.waits[j].status = "resolved"
                /\ c.waits[j].value = "abc")

====
